---------------------------- MODULE Spec2Model ----------------------------
(***************************************************************************)
(* Connected components by label propagation (src/src/bin/connected.rs),   *)
(* in its two strategies: connected_components_join (the label stream is   *)
(* joined with the edge stream in every iteration) and                     *)
(* connected_components_shared (every replica holds the adjacency map).    *)
(*                                                                         *)
(* The dataflow runs on `parts` replicas.  One iteration is: every replica *)
(* generates candidates from its slice of the input stream; the candidates *)
(* are grouped by target node and min-reduced; the owner of each target    *)
(* filters the reduced pair against the state it reads through             *)
(* state.get() and pushes what passes into its delta; the leader folds     *)
(* every replica's delta into its State and evaluates the loop condition.  *)
(* The body's output (the filtered pairs) is the next iteration's input.   *)
(***************************************************************************)
EXTENDS Integers, FiniteSets, Sequences, TLC

\* ------------------------------------------------------------- bounds
MaxNodes == 3
MaxEdges == 2
MaxIterations == 2
MaxPartitions == 2

VARIABLES
    opts,             \* Options: iterations, nodes, shared
    parts,            \* number of replicas of the dataflow
    nodes_source,     \* the node ids the node file lists
    edges_source,     \* the records of the edge file
    edges,            \* the edge stream: edges[x][y] copies of edge (x, y)
    edges_map,        \* the adjacency map the broadcast strategy collects
    state,            \* the State the leader folds into
    snapshot,         \* the State the body reads through state.get()
    s,                \* input stream of the current iteration: pairs <<x, c>>
    cand,             \* cand[p]: candidates emitted by replica p (a bag of <<y, c>>)
    generated,        \* replicas whose delta generator has finished
    delta,            \* delta[p]: replica p's Vec<(u64, u64)> of changes
    reduced,          \* replicas whose delta is complete
    folded,           \* replicas whose delta the leader has folded
    iteration_index,  \* iterations the leader has completed
    condition,        \* what the loop condition returned last
    phase,            \* "running", "stopped" or "failed" (a panic)
    adj_list,         \* pagerank.rs: page -> the pages it links to
    prev,             \* pagerank.rs: prev of the rich_map closure of each key
    output,           \* pagerank.rs: what the body emitted in this iteration
    pc                \* pagerank.rs: next step, "body", "fold" or "condition"

vars == <<opts, parts, nodes_source, edges_source, edges, edges_map, state,
          snapshot, s, cand, generated, delta, reduced, folded,
          iteration_index, condition, phase, adj_list, prev, output, pc>>

\* What only the PageRank dataflow uses.
prVars == <<adj_list, prev, output, pc>>

\* ------------------------------------------------------------- helpers
Nodes == 0 .. (opts.nodes - 1)

\* Every id of the run: those of [0, N), of the node file and of the edge
\* records.  The edge stream counts every pair of them.
Ids == DOMAIN edges
Pairs == Ids \X Ids
Parts == 0 .. (parts - 1)

Min(S) == CHOOSE m \in S : \A k \in S : m <= k
Max(S) == CHOOSE m \in S : \A k \in S : m >= k

RECURSIVE Sum(_, _)
Sum(f, S) ==
    IF S = {} THEN 0
    ELSE LET x == CHOOSE x \in S : TRUE IN f[x] + Sum(f, S \ {x})

\* The key of a keyed stream decides the replica that processes it.
Owner(x) == x % parts

\* Edge listings are enumerated up to the order of their records.
PairLeq(a, b) == a[1] < b[1] \/ (a[1] = b[1] /\ a[2] <= b[2])

EdgeListings(n) ==
    UNION { { e \in [1 .. k -> (0 .. (n - 1)) \X (0 .. (n - 1))] :
                \A i \in 1 .. (k - 1) : PairLeq(e[i], e[i + 1]) } :
            k \in 0 .. MaxEdges }

\* ------------------------------------------------------------- State
\* Mutant: every node starts with the label 0.
StateNewZero(num_nodes) ==
    [component |-> [i \in 0 .. (num_nodes - 1) |-> 0],
     updated |-> FALSE,
     iteration_count |-> 0]

\* State::new: component = (0..num_nodes).collect(), every node its own id.
StateNew(num_nodes) ==
    [component |-> [i \in 0 .. (num_nodes - 1) |-> i],
     updated |-> FALSE,
     iteration_count |-> 0]

\* ------------------------------------------------------------- edges
\* Mutant: the stream holds a record in the listed direction only.
FlatMapDirected(records, ids) ==
    [x \in ids |-> [y \in ids |->
        Cardinality({i \in DOMAIN records : records[i] = <<x, y>>})]]

\* flat_map(|(x, y)| vec![(x, y), (y, x)]): the stream holds the directed
\* edge (x, y) once for every record (x, y) and once for every record (y, x).
FlatMap(records, ids) ==
    [x \in ids |-> [y \in ids |->
        Cardinality({i \in DOMAIN records : records[i] = <<x, y>>})
        + Cardinality({i \in DOMAIN records : records[i] = <<y, x>>})]]

EdgeCount(x, y) == edges[x][y]

\* group_by_fold(...).collect_all::<HashMap<_, _>>(): a key for every node
\* that has a directed edge, mapped to its neighbours with multiplicity.
GroupByFold(stream, ids) ==
    [x \in {x \in ids : \E y \in ids : stream[x][y] > 0} |->
        [y \in ids |-> stream[x][y]]]

\* ------------------------------------------------------------- body
EmptyBag == [t \in Pairs |-> 0]

\* Mutant: the join pairs an input element with every node, linked or not.
JoinCandidatesAnyTarget(input) ==
    [t \in Pairs |->
        Sum([x \in Ids |-> IF <<x, t[2]>> \in input THEN 1 ELSE 0], Ids)]

\* s.join(edges, ..).map(|(_, ((_x, component), (_, y)))| (y, component)):
\* one pair (y, c) for every input element (x, c) and directed edge (x, y).
JoinCandidates(input) ==
    [t \in Pairs |->
        Sum([x \in Ids |-> IF <<x, t[2]>> \in input
                           THEN EdgeCount(x, t[1]) ELSE 0], Ids)]

\* edges[&x] panics for a key the map does not hold.
LookupPanics(input) == \E e \in input : e[1] \notin DOMAIN edges_map

\* Mutant: the pruning compares with c + 1 < y.
SharedCandidatesOver(input) ==
    [t \in Pairs |->
        Sum([x \in Ids |-> IF <<x, t[2]>> \in input /\ t[2] + 1 < t[1]
                           THEN edges_map[x][t[1]] ELSE 0], Ids)]

\* Mutant: the pruning compares with c <= y.
SharedCandidatesLeq(input) ==
    [t \in Pairs |->
        Sum([x \in Ids |-> IF <<x, t[2]>> \in input /\ t[2] <= t[1]
                           THEN edges_map[x][t[1]] ELSE 0], Ids)]

\* s.flat_map(|(x, c)| edges[&x].iter().filter(|&&y| c < y).map(|&y| (y, c)))
SharedCandidates(input) ==
    [t \in Pairs |->
        Sum([x \in Ids |-> IF <<x, t[2]>> \in input /\ t[2] < t[1]
                           THEN edges_map[x][t[1]] ELSE 0], Ids)]

Candidates(shared, input) ==
    IF shared THEN SharedCandidates(input) ELSE JoinCandidates(input)

\* Mutant: the reducer sees the candidates of one replica only.
BagUnionFirst(bags) == bags[Min(DOMAIN bags)]

\* The candidates of every replica, repartitioned by target.
BagUnion(bags) ==
    [t \in Pairs |-> Sum([p \in DOMAIN bags |-> bags[p][t]], DOMAIN bags)]

\* Mutant: the reducer keeps every candidate of a target.
GroupByAllElements(bag) == {t \in Pairs : bag[t] > 0}

\* Mutant: the reducer keeps the largest candidate of a target.
GroupByMaxElement(bag) ==
    { <<y, Max({c \in Ids : bag[<<y, c>>] > 0})>> :
        y \in {y \in Ids : \E c \in Ids : bag[<<y, c>>] > 0} }

\* group_by_min_element(target, candidate).drop_key()
GroupByMinElement(bag) ==
    { <<y, Min({c \in Ids : bag[<<y, c>>] > 0})>> :
        y \in {y \in Ids : \E c \in Ids : bag[<<y, c>>] > 0} }

\* state.get().component[x as usize] panics for an index outside the Vec:
\* the filter of the replica that owns the targets `owned` panics when one
\* of them has a candidate in the bag and no entry in the Vec.
IndexPanics(st, bag, owned) ==
    \E y \in (Ids \ DOMAIN st.component) \cap owned :
        \E c \in Ids : bag[<<y, c>>] > 0

\* Mutant: the comparison of the filter is reversed.
FilterMapReversed(st, pairs) ==
    {t \in pairs : ~(st.component[t[1]] >= t[2])}

\* Mutant: the filter passes every reduced pair.
FilterMapAll(st, pairs) == pairs

\* Mutant: the filter passes a candidate equal to the old label.
FilterMapLeq(st, pairs) ==
    {t \in pairs : ~(st.component[t[1]] < t[2])}

\* filter_map: None when old_component <= component.
FilterMap(st, pairs) ==
    {t \in pairs : ~(st.component[t[1]] <= t[2])}

\* ------------------------------------------------------------- fold
\* Mutant: the fold combines the flag with && and so never raises it.
GlobalFoldNoFlag(st, changes) ==
    [st EXCEPT
        !.updated = st.updated /\ changes # {},
        !.component =
            [i \in DOMAIN st.component |->
                IF \E t \in changes : t[1] = i
                THEN (CHOOSE t \in changes : t[1] = i)[2]
                ELSE st.component[i]]]

\* Mutant: the fold raises the flag for an empty delta too.
GlobalFoldAlwaysFlag(st, changes) ==
    [st EXCEPT
        !.updated = TRUE,
        !.component =
            [i \in DOMAIN st.component |->
                IF \E t \in changes : t[1] = i
                THEN (CHOOSE t \in changes : t[1] = i)[2]
                ELSE st.component[i]]]

\* |state, changes| { updated ||= !changes.is_empty(); component[x] = c }
GlobalFold(st, changes) ==
    [st EXCEPT
        !.updated = st.updated \/ changes # {},
        !.component =
            [i \in DOMAIN st.component |->
                IF \E t \in changes : t[1] = i
                THEN (CHOOSE t \in changes : t[1] = i)[2]
                ELSE st.component[i]]]

\* Mutant: the loop condition does not reset the flag.
LoopConditionNoReset(st) ==
    [condition |-> st.updated,
     state |-> [st EXCEPT !.iteration_count = st.iteration_count + 1]]

\* Mutant: the loop condition does not count the iteration.
LoopConditionNoCount(st) ==
    [condition |-> st.updated, state |-> [st EXCEPT !.updated = FALSE]]

\* |state| { let condition = state.updated; state.updated = false;
\*           state.iteration_count += 1; condition }
LoopCondition(st) ==
    [condition |-> st.updated,
     state |-> [st EXCEPT !.updated = FALSE,
                          !.iteration_count = st.iteration_count + 1]]

\* Mutant: the budget allows one iteration more.
ShouldContinueOneMore(cond, done) == cond /\ done <= opts.iterations

\* Mutant: the budget is not enforced.
ShouldContinueNoBudget(cond, done) == cond

\* iterate(opts.iterations, ..): another iteration runs when the loop
\* condition held and the budget is not used up.
ShouldContinue(cond, done) == cond /\ done < opts.iterations

\* ------------------------------------------------------------- actions
\* The dataflow as it is built from the inputs, before its first step; ids
\* are all the ids of the run.
Start(ids) ==
    /\ edges = FlatMap(edges_source, ids)
    /\ edges_map = GroupByFold(edges, ids)
    /\ state = StateNew(opts.nodes)
    /\ snapshot = StateNew(opts.nodes)
    /\ s = {<<x, x>> : x \in nodes_source}
    /\ cand = [p \in 0 .. (parts - 1) |-> [t \in ids \X ids |-> 0]]
    /\ generated = {}
    /\ delta = [p \in 0 .. (parts - 1) |-> {}]
    /\ reduced = {}
    /\ folded = {}
    /\ iteration_index = 0
    /\ condition = FALSE
    /\ phase = "running"
    /\ adj_list = << >>
    /\ prev = << >>
    /\ output = {}
    /\ pc = "body"

\* The node file lists the nodes 0 .. N-1 once each, and every endpoint of
\* an edge record lies in [0, N).  The first input of the loop is
\* stream(nodes_source).map(|x| (x, x)).
Init ==
    /\ opts \in [iterations : 1 .. MaxIterations,
                 nodes : 1 .. MaxNodes,
                 shared : BOOLEAN]
    /\ parts \in 1 .. MaxPartitions
    /\ nodes_source = 0 .. (opts.nodes - 1)
    /\ edges_source \in EdgeListings(opts.nodes)
    /\ Start(0 .. (opts.nodes - 1))

Slice(p) == {e \in s : Owner(e[1]) = p}

\* Replica p runs the delta generator on its slice of the input stream.
Generate(p) ==
    /\ phase = "running"
    /\ p \notin generated
    /\ IF opts.shared /\ LookupPanics(Slice(p))
       THEN /\ phase' = "failed"
            /\ UNCHANGED <<cand, generated>>
       ELSE /\ cand' = [cand EXCEPT ![p] = Candidates(opts.shared, Slice(p))]
            /\ generated' = generated \cup {p}
            /\ UNCHANGED phase
    /\ UNCHANGED prVars
    /\ UNCHANGED <<opts, parts, nodes_source, edges_source, edges, edges_map,
                   state, snapshot, s, delta, reduced, folded,
                   iteration_index, condition>>

\* Replica p reduces the candidates of the targets it owns, filters them
\* against the state of the iteration and collects what passes.
ReduceFilter(p) ==
    /\ phase = "running"
    /\ generated = Parts
    /\ p \notin reduced
    /\ IF IndexPanics(snapshot, BagUnion(cand), {y \in Ids : Owner(y) = p})
       THEN /\ phase' = "failed"
            /\ UNCHANGED <<delta, reduced>>
       ELSE /\ delta' = [delta EXCEPT ![p] =
                    FilterMap(snapshot,
                        {t \in GroupByMinElement(BagUnion(cand)) :
                            Owner(t[1]) = p})]
            /\ reduced' = reduced \cup {p}
            /\ UNCHANGED phase
    /\ UNCHANGED prVars
    /\ UNCHANGED <<opts, parts, nodes_source, edges_source, edges, edges_map,
                   state, snapshot, s, cand, generated, folded,
                   iteration_index, condition>>

\* Mutant: the leader folds a delta that its replica has not completed.
DeltaReadyAlways(p) == TRUE

\* A replica hands its delta to the leader when its iteration has ended,
\* that is when the local fold has collected all that passed the filter.
DeltaReady(p) == p \in reduced

\* The leader folds the delta of replica p as it arrives.
Fold(p) ==
    /\ phase = "running"
    /\ DeltaReady(p)
    /\ p \notin folded
    /\ state' = GlobalFold(state, delta[p])
    /\ folded' = folded \cup {p}
    /\ UNCHANGED prVars
    /\ UNCHANGED <<opts, parts, nodes_source, edges_source, edges, edges_map,
                   snapshot, s, cand, generated, delta, reduced,
                   iteration_index, condition, phase>>

\* Every delta is folded: the leader evaluates the loop condition and
\* either starts the next iteration on the body's output or stops (the
\* last output is left to the stream that is dropped).
Coordinator ==
    /\ phase = "running"
    /\ folded = Parts
    /\ LET r == LoopCondition(state) IN
        /\ state' = r.state
        /\ condition' = r.condition
        /\ iteration_index' = iteration_index + 1
        /\ IF ShouldContinue(r.condition, iteration_index + 1)
           THEN /\ s' = UNION {delta[p] : p \in Parts}
                /\ snapshot' = r.state
                /\ cand' = [p \in Parts |-> EmptyBag]
                /\ generated' = {}
                /\ delta' = [p \in Parts |-> {}]
                /\ reduced' = {}
                /\ folded' = {}
                /\ UNCHANGED phase
           ELSE /\ phase' = "stopped"
                /\ UNCHANGED <<s, snapshot, cand, generated, delta, reduced,
                               folded>>
    /\ UNCHANGED prVars
    /\ UNCHANGED <<opts, parts, nodes_source, edges_source, edges, edges_map>>

Next ==
    \/ \E p \in Parts : Generate(p)
    \/ \E p \in Parts : ReduceFilter(p)
    \/ \E p \in Parts : Fold(p)
    \/ Coordinator

Spec == Init /\ [][Next]_vars

\* The scheduler runs every enabled step of the dataflow.
LiveSpec == Spec /\ WF_vars(Next)

\* Nothing in main or in either strategy compares the inputs with
\* opts.nodes: the node file may list an id more or an id fewer than
\* [0, N), and an edge record may name the id N.
Misconfigured ==
    \/ nodes_source # Nodes
    \/ \E i \in DOMAIN edges_source :
           edges_source[i][1] \notin Nodes \/ edges_source[i][2] \notin Nodes

InitCfg ==
    /\ opts \in [iterations : 1 .. MaxIterations,
                 nodes : 1 .. MaxNodes,
                 shared : BOOLEAN]
    /\ parts \in 1 .. MaxPartitions
    /\ nodes_source \in {0 .. (opts.nodes - 1), 0 .. (opts.nodes - 2),
                         0 .. opts.nodes}
    /\ edges_source \in EdgeListings(opts.nodes + 1)
    /\ Misconfigured
    /\ Start(0 .. opts.nodes)

SpecCfg == InitCfg /\ [][Next]_vars

TypeOK ==
    /\ phase \in {"running", "stopped", "failed"}
    /\ generated \subseteq Parts
    /\ reduced \subseteq Parts
    /\ folded \subseteq reduced
    /\ \A i \in Nodes : state.component[i] \in Nodes

\* ------------------------------------------------------------- whole run
\* iterate(..) run to its end on one replica: the exposed State, or a panic.
RECURSIVE Iterate(_, _, _, _)
Iterate(shared, st, input, done) ==
    IF shared /\ LookupPanics(input)
    THEN [phase |-> "failed", state |-> StateNew(opts.nodes)]
    ELSE LET changes == FilterMap(st,
                            GroupByMinElement(Candidates(shared, input)))
             r == LoopCondition(GlobalFold(st, changes))
         IN  IF IndexPanics(st, Candidates(shared, input), Ids)
             THEN [phase |-> "failed", state |-> StateNew(opts.nodes)]
             ELSE IF ShouldContinue(r.condition, done + 1)
                  THEN Iterate(shared, r.state, changes, done + 1)
                  ELSE [phase |-> "stopped", state |-> r.state]

ConnectedComponents(shared) ==
    Iterate(shared, StateNew(opts.nodes), {<<x, x>> : x \in nodes_source}, 0)

\* ------------------------------------------------------------- graph theory
Adjacent(x, y) == EdgeCount(x, y) > 0

Grow(b) == b \cup {y \in Nodes : \E x \in b : Adjacent(x, y)}

\* The nodes that b reaches.
RECURSIVE Reach(_)
Reach(b) == IF Grow(b) = b THEN b ELSE Reach(Grow(b))

IsConnected(u, v) == v \in Reach({u})

\* The largest distance from the nodes of b, all within k of v, to a node
\* that v reaches.
RECURSIVE Eccentricity(_, _)
Eccentricity(b, k) == IF Grow(b) = b THEN k ELSE Eccentricity(Grow(b), k + 1)

\* The largest shortest-path distance inside a connected component.
Diameter == Max({Eccentricity({v}, 0) : v \in Nodes})

\* The labels partition the nodes into the connected components.
LabelsAreComponents(st) ==
    \A u, v \in Nodes :
        (st.component[u] = st.component[v]) <=> IsConnected(u, v)

\* The coordinator is about to evaluate the loop condition.
AtLoopCondition == phase = "running" /\ folded = Parts

\* ------------------------------------------------------------- claims

\* C1: no step of a fold ever raises a label, under either strategy: the
\* label of every node after a fold is at most its label before it.
C1_LabelsNeverRise ==
    [][\A i \in Nodes : state'.component[i] <= state.component[i]]_vars

\* A fold of the second or a later iteration has lowered a label.
C1_Witness ==
    /\ iteration_index >= 1
    /\ \E i \in Nodes : state.component[i] < snapshot.component[i]

\* C2 (as stated): once STOPPED, by either halt condition, two nodes have
\* equal labels exactly when they are connected.
C2_Original == phase = "stopped" => LabelsAreComponents(state)

\* C2 (amended): once STOPPED because the loop condition found the Changed
\* Flag false, two nodes have equal labels exactly when they are connected.
C2_StoppedByFlag ==
    (phase = "stopped" /\ ~condition) => LabelsAreComponents(state)

\* A run that converged on a graph with a component of several nodes and
\* with two nodes that are not connected.
C2_Witness ==
    /\ phase = "stopped"
    /\ ~condition
    /\ iteration_index >= 2
    /\ \E u, v \in Nodes : u # v /\ IsConnected(u, v)
    /\ \E u, v \in Nodes : ~IsConnected(u, v)

\* C3: both strategies end with the same outcome on the same input: where
\* this run stopped the other strategy stops with the same State, and
\* where this run failed the other fails.
C3_StrategyEquivalence ==
    /\ phase = "stopped" =>
         ConnectedComponents(~opts.shared) = [phase |-> "stopped", state |-> state]
    /\ phase = "failed" => ConnectedComponents(~opts.shared).phase = "failed"

\* C4: for every graph and budget the loop reaches STOPPED, and it never
\* completes more iterations than the budget.
C4_Terminates ==
    /\ [](iteration_index <= opts.iterations)
    /\ <>(phase = "stopped")

\* C5: at the loop condition the coordinator stays RUNNING exactly when the
\* Changed Flag is true and the iterations completed, this one included,
\* are below the budget; otherwise it moves to STOPPED; either way the flag
\* is reset and the iteration count grows by one; STOPPED is never left.
C5_Coordinator ==
    [][ /\ AtLoopCondition =>
            /\ phase' \in {"running", "stopped"}
            /\ (phase' = "running") <=>
                  (state.updated /\ state.iteration_count + 1 < opts.iterations)
            /\ state'.updated = FALSE
            /\ state'.iteration_count = state.iteration_count + 1
        /\ phase = "stopped" => phase' = "stopped" ]_vars

\* The coordinator has decided to run another iteration after a fold that
\* changed a label.
C5_Witness ==
    /\ phase = "running"
    /\ condition
    /\ iteration_index >= 1
    /\ state.updated = FALSE
    /\ state.iteration_count = iteration_index

\* C6: on a graph of diameter d no fold after the d-th iteration changes a
\* label: when the folds of the current iteration have changed the labels
\* the body read, at most d - 1 iterations were completed before it.
C6_FixpointAfterDiameter ==
    state.component # snapshot.component =>
        snapshot.iteration_count < Diameter

\* A delta was folded in an iteration after the d-th on a graph with edges
\* between different nodes.
C6_Witness ==
    /\ phase = "running"
    /\ folded # {}
    /\ state.iteration_count >= 1
    /\ state.iteration_count >= Diameter
    /\ Diameter >= 1

\* C7 (as stated): a run that halts at the budget after a fold that changed
\* a label exposes a State whose updated flag is true.
C7_Original ==
    (phase = "stopped" /\ condition /\ iteration_index = opts.iterations)
        => state.updated = TRUE

\* C7 (amended): when the budget is reached after a fold that changed a
\* label, the loop stops without failing, the loop condition has returned
\* true, and the exposed State has updated = false.
C7_BudgetHalt ==
    [][(AtLoopCondition /\ state.updated
            /\ iteration_index + 1 = opts.iterations) =>
          /\ phase' = "stopped"
          /\ condition' = TRUE
          /\ state'.updated = FALSE]_vars

\* Budget 1 on a path of diameter 2 or more: stopped at the budget on
\* labels that are not the components.
C7_Witness ==
    /\ phase = "stopped"
    /\ condition
    /\ iteration_index = opts.iterations
    /\ opts.iterations = 1
    /\ ~LabelsAreComponents(state)
    /\ Diameter >= 2

\* One more iteration on the labels of all nodes, starting from st.
OneMoreIteration(st) ==
    GlobalFold(st,
        FilterMap(st,
            GroupByMinElement(
                Candidates(opts.shared,
                           {<<x, st.component[x]>> : x \in Nodes}))))

\* C8 (as stated): one more iteration from the State exposed at STOPPED
\* changes no label and reports the Changed Flag false.
C8_Original ==
    phase = "stopped" =>
        /\ OneMoreIteration(state).component = state.component
        /\ OneMoreIteration(state).updated = FALSE

\* C8 (amended): one more iteration from the State exposed at STOPPED after
\* a halt by the Changed Flag being false changes no label and reports the
\* Changed Flag false.
C8_IdempotentAfterConvergence ==
    (phase = "stopped" /\ ~condition) =>
        /\ OneMoreIteration(state).component = state.component
        /\ OneMoreIteration(state).updated = FALSE

\* A converged run whose folds changed labels.
C8_Witness ==
    /\ phase = "stopped"
    /\ ~condition
    /\ \E i \in Nodes : state.component[i] # i

\* The pairs of a bag whose candidate is below their target.
Pruned(bag) == [t \in Pairs |-> IF t[2] < t[1] THEN bag[t] ELSE 0]

\* C9 (as stated): the generator of either strategy emits, on a slice of
\* the input, the bag of pairs the join generator emits on it.
C9_Original ==
    \A p \in generated : cand[p] = JoinCandidates(Slice(p))

\* C9 (amended): a replica's broadcast generator emits exactly those pairs
\* of the join generator's bag whose candidate is below the target (a
\* replica's join generator emits the whole bag); for an input
\* element whose node has no entry in the adjacency map, where the
\* broadcast lookup fails, the join generator emits nothing.
C9_BroadcastIsPrunedJoin ==
    [][ /\ \A p \in generated' \ generated :
            cand'[p] = IF opts.shared THEN Pruned(JoinCandidates(Slice(p)))
                       ELSE JoinCandidates(Slice(p))
        /\ \A e \in s :
            e[1] \notin DOMAIN edges_map => JoinCandidates({e}) = EmptyBag
      ]_vars

\* The broadcast generator has emitted pairs, and fewer than the join
\* generator emits on the same slice.
C9_Witness ==
    /\ opts.shared
    /\ \E p \in generated :
          /\ cand[p] # EmptyBag
          /\ cand[p] # JoinCandidates(Slice(p))

\* C10: no step of the loop fails on an input whose node ids and edge
\* endpoints lie in [0, N).
C10_NoPanic == phase # "failed"

\* C11: when an edge endpoint lies outside [0, N), or the node file does
\* not list exactly the ids of [0, N), the run aborts before its first
\* iteration: no replica generates a candidate, filters or folds.
C11_AbortsBeforeIteration ==
    Misconfigured =>
        /\ generated = {} /\ reduced = {} /\ folded = {}
        /\ iteration_index = 0
        /\ phase \in {"running", "failed"}

\* What one replica that receives every delta in one piece computes from
\* the state st and the input of an iteration.
SingleReplicaFold(st, input) ==
    GlobalFold(st, FilterMap(st, GroupByMinElement(Candidates(opts.shared, input))))

\* C12: the state after the fold of an iteration, and the final state, do
\* not depend on the number of replicas nor on the order in which they
\* produce and deliver their deltas: they are what a single replica
\* computes from the same input.
C12_OrderIndependent ==
    /\ AtLoopCondition => state = SingleReplicaFold(snapshot, s)
    /\ phase = "stopped" =>
           ConnectedComponents(opts.shared) =
               [phase |-> "stopped", state |-> state]

C12_Witness ==
    /\ AtLoopCondition
    /\ parts = 2
    /\ delta[0] # {} /\ delta[1] # {}
    /\ \E p \in Parts : \E t \in Pairs :
           /\ cand[p][t] > 0
           /\ Owner(t[1]) # p

\* C14: a reduced candidate (node, c) is in the delta that is folded if
\* and only if c is strictly below the label of node in the snapshot the
\* iteration started from, whatever the leader has folded meanwhile.
C14_StrictFilter ==
    [][\A p \in reduced' \ reduced :
          delta'[p] =
              {t \in GroupByMinElement(BagUnion(cand)) :
                  Owner(t[1]) = p /\ t[2] < snapshot.component[t[1]]}]_vars

C14_Witness ==
    /\ reduced # {}
    /\ state.component # snapshot.component
    /\ \E p \in reduced :
           /\ delta[p] # {}
           /\ \E t \in GroupByMinElement(BagUnion(cand)) :
                  Owner(t[1]) = p /\ t[2] = snapshot.component[t[1]]

\* C15: when the loop condition is evaluated, the flag is true exactly
\* when the fold of the iteration changed an entry of the label vector,
\* and every pair the fold assigned differs from the label it replaced.
C15_FlagIffChanged ==
    AtLoopCondition =>
        /\ state.updated <=> (state.component # snapshot.component)
        /\ \A p \in Parts : \A t \in delta[p] :
               /\ t[2] # snapshot.component[t[1]]
               /\ state.component[t[1]] = t[2]

C15_Witness ==
    /\ AtLoopCondition
    /\ iteration_index >= 1
    /\ state.updated
    /\ \E p \in Parts : delta[p] = {}

\* C16: iteration_count starts at 0, never decreases, grows by exactly
\* one when an iteration completes and only then, never exceeds the
\* budget, and at STOPPED equals the number of iterations folded.
C16_IterationCount ==
    /\ state.iteration_count = 0
    /\ [][/\ state'.iteration_count >= state.iteration_count
          /\ state'.iteration_count <= opts.iterations
          /\ IF AtLoopCondition
             THEN state'.iteration_count = state.iteration_count + 1
             ELSE state'.iteration_count = state.iteration_count
          /\ phase' = "stopped" =>
                 state'.iteration_count = iteration_index']_vars

C16_Witness ==
    /\ phase = "stopped"
    /\ state.iteration_count = opts.iterations
    /\ opts.iterations >= 2

DampeningNum == 17
DampeningDen == 20
EpsInverse == 100000000

\* The least common multiple of the degrees 1 .. n a page can have.
RECURSIVE Lcm(_)
Lcm(n) ==
    IF n = 0 THEN 1
    ELSE Min({m \in 1 .. (n * Lcm(n - 1)) :
                 m % n = 0 /\ m % Lcm(n - 1) = 0})

LcmDeg == Lcm(MaxEdges)
Scale == DampeningDen * LcmDeg

RECURSIVE Pow(_, _)
Pow(b, k) == IF k = 0 THEN 1 ELSE b * Pow(b, k - 1)

Denom(k) == opts.nodes * Pow(Scale, k)

Abs(d) == IF d < 0 THEN 0 - d ELSE d

\* The edge file is read in the order of its records up to the order of
\* the records after the first.
LinkListings(n) ==
    UNION { { e \in [1 .. k -> (0 .. (n - 1)) \X (0 .. (n - 1))] :
                \A i \in 2 .. (k - 1) : PairLeq(e[i], e[i + 1]) } :
            k \in 0 .. MaxEdges }

\* The link of page j in the cycle over n pages.
CycleLink(j, n) == <<j, (j + 1) % n>>

\* The edge files that list the cycle 0 -> 1 -> .. -> n - 1 -> 0, one
\* record per page: the link of page f first, the others in order.
CycleListings(n) ==
    { [i \in 1 .. n |->
          IF i = 1 THEN CycleLink(f, n)
          ELSE IF i - 2 < f THEN CycleLink(i - 2, n)
               ELSE CycleLink(i - 1, n)] : f \in 0 .. (n - 1) }

\* CsvSource::new(..).has_headers(false): every record of the file.
CsvSource(records) == records

\* csv::ReaderBuilder::default(): has_headers is true, the first record of
\* the file is taken for a header row and is not deserialized.
CsvReaderDefault(records) ==
    IF records = << >> THEN << >> ELSE Tail(records)

\* The records as a bag of links (x, y).
Links(records) ==
    [x \in Ids |-> [y \in Ids |->
        Cardinality({i \in DOMAIN records : records[i] = <<x, y>>})]]

\* Mutant: the adjacency list holds both directions of a record.
AdjListSymmetric(records) == GroupByFold(FlatMap(records, Ids), Ids)

\* Mutant: the adjacency holds a key, with an empty list, for every page.
AdjListAllKeys(records) ==
    [x \in Ids |-> [y \in Ids |-> Links(records)[x][y]]]

\* group_by_fold(|(x, _y)| *x, Vec::new(), push y) and the fold into
\* acc.entry(x).or_default().push(y): a key for every x of a record
\* (x, y), mapped to its ys with multiplicity.
AdjList(records) == GroupByFold(Links(records), Ids)

AdjacencyOf(shared) ==
    IF shared THEN AdjList(CsvReaderDefault(edges_source))
    ELSE AdjList(CsvSource(edges_source))

AdjLen(adj, x) == Sum(adj[x], DOMAIN adj[x])

\* The pages of a stream, and the rank a stream holds for page x.
Pages(stream) == {e[1] : e \in stream}
RankIn(stream, x) == (CHOOSE e \in stream : e[1] = x)[3]

\* join / adjacency_list.get(&x), then rank / adj.len() to every y of adj,
\* then group_by_sum: the mass that reaches y, a numerator over
\* Denom(k) * LcmDeg.  A page without a key in adj hands out nothing.
GroupBySum(adj, input, y) ==
    Sum([x \in Ids |->
            IF x \in DOMAIN adj /\ x \in Pages(input)
            THEN adj[x][y] * (RankIn(input, x) * (LcmDeg \div AdjLen(adj, x)))
            ELSE 0], Ids)

\* The keys of the stream after group_by_sum: the pages that received.
Targets(adj, input) ==
    {y \in Ids : \E x \in Pages(input) : x \in DOMAIN adj /\ adj[x][y] > 0}

\* rank * DAMPENING + (1.0 - DAMPENING) / num_pages, over Denom(k + 1).
NewRank(adj, input, y, k) ==
    DampeningNum * GroupBySum(adj, input, y)
    + (DampeningDen - DampeningNum) * (Denom(k) \div opts.nodes) * LcmDeg

\* Mutant: rich_map emits the rank of the input stream as the old rank.
RichMapStreamOld(adj, input, pv, k) ==
    {<<y, RankIn(input, y) * Scale, NewRank(adj, input, y, k)>> :
        y \in Targets(adj, input)}

\* rich_map: (x, replace(&mut prev, rank), rank) for every key of the
\* grouped stream; old is what the closure of that key emitted last, 0.0
\* at first.
RichMap(adj, input, pv, k) ==
    {<<y, pv[y] * Scale, NewRank(adj, input, y, k)>> :
        y \in Targets(adj, input)}

\* prev of every key after the body, brought to Denom(k + 1).
PrevAfter(adj, input, pv, k) ==
    [y \in Ids |-> IF y \in Targets(adj, input)
                   THEN NewRank(adj, input, y, k) ELSE pv[y] * Scale]

\* (new - old).abs() / new > EPS, for numerators of one denominator.
Changed(old, new) == Abs(new - old) > new \div EpsInverse

\* |changed, (_x, old, new)| *changed = *changed || ..
LocalFold(out) == \E e \in out : Changed(e[2], e[3])

\* |state, changed| *state = *state || changed
PRGlobalFold(st, changed) == st \/ changed

\* |state| replace(state, false)
PRLoopCondition(st) == [condition |-> st, state |-> FALSE]

\* .map(move |x| (x, 0.0, 1.0 / num_pages as f64)), over Denom(0) = N.
InitialRanks == {<<x, 0, 1>> : x \in nodes_source}

InitPR ==
    /\ opts \in [iterations : 1 .. MaxIterations,
                 nodes : 1 .. MaxNodes,
                 shared : BOOLEAN]
    /\ parts = 1
    /\ nodes_source = 0 .. (opts.nodes - 1)
    /\ edges_source \in LinkListings(opts.nodes) \cup CycleListings(opts.nodes)
    /\ edges = FlatMap(edges_source, nodes_source)
    /\ edges_map = GroupByFold(edges, nodes_source)
    /\ adj_list = AdjacencyOf(opts.shared)
    /\ s = InitialRanks
    /\ prev = [x \in nodes_source |-> 0]
    /\ output = {}
    /\ state = FALSE
    /\ snapshot = FALSE
    /\ pc = "body"
    /\ cand = << >>
    /\ generated = {}
    /\ delta = << >>
    /\ reduced = {}
    /\ folded = {}
    /\ iteration_index = 0
    /\ condition = FALSE
    /\ phase = "running"

ccVars == <<opts, parts, nodes_source, edges_source, edges, edges_map,
            snapshot, cand, generated, delta, reduced, folded>>

\* One run of the body over the input stream.
Body ==
    /\ phase = "running"
    /\ pc = "body"
    /\ output' = RichMap(adj_list, s, prev, iteration_index)
    /\ prev' = PrevAfter(adj_list, s, prev, iteration_index)
    /\ pc' = "fold"
    /\ UNCHANGED <<ccVars, adj_list, s, state, iteration_index, condition,
                   phase>>

\* The local fold over the body's output and the global fold of its bool.
FoldChanged ==
    /\ phase = "running"
    /\ pc = "fold"
    /\ state' = PRGlobalFold(state, LocalFold(output))
    /\ pc' = "condition"
    /\ UNCHANGED <<ccVars, adj_list, s, prev, output, iteration_index,
                   condition, phase>>

\* The loop condition; the body's output is the next input, or, when the
\* loop stops, the result that is collected.
Decide ==
    /\ phase = "running"
    /\ pc = "condition"
    /\ LET r == PRLoopCondition(state) IN
        /\ state' = r.state
        /\ condition' = r.condition
        /\ iteration_index' = iteration_index + 1
        /\ IF ShouldContinue(r.condition, iteration_index + 1)
           THEN /\ s' = output
                /\ output' = {}
                /\ pc' = "body"
                /\ UNCHANGED phase
           ELSE /\ phase' = "stopped"
                /\ UNCHANGED <<s, output, pc>>
    /\ UNCHANGED <<ccVars, adj_list, prev>>

NextPR == Body \/ FoldChanged \/ Decide

SpecPR == InitPR /\ [][NextPR]_vars

\* The iteration whose body ran last.
BodyIndex == IF phase = "stopped" THEN iteration_index - 1 ELSE iteration_index

\* The edge file lists the cycle over all pages.
IsCycle == edges_source \in CycleListings(opts.nodes)

\* Every page has an out-link in the edge file.
NoDangling ==
    \A x \in nodes_source :
        \E i \in DOMAIN edges_source : edges_source[i][1] = x

\* The sum of the ranks of a stream.
RankSum(stream) == Sum([x \in Pages(stream) |-> RankIn(stream, x)], Pages(stream))

\* iterate(..) of PageRank run to its end: the collected result, a set of
\* <<x, old, rank>> over Denom(iterations).
RECURSIVE PRIterate(_, _, _, _)
PRIterate(adj, input, pv, done) ==
    LET out == RichMap(adj, input, pv, done)
        r == PRLoopCondition(PRGlobalFold(FALSE, LocalFold(out)))
    IN  IF ShouldContinue(r.condition, done + 1)
        THEN PRIterate(adj, out, PrevAfter(adj, input, pv, done), done + 1)
        ELSE [result |-> out, iterations |-> done + 1, state |-> r.state]

Pagerank(shared) ==
    PRIterate(AdjacencyOf(shared), InitialRanks,
              [x \in nodes_source |-> 0], 0)

C18_NoInboundKeepsRank ==
    /\ pc # "body" =>
          \A x \in Pages(s) :
              x \notin Targets(adj_list, s) =>
                  \E e \in output :
                      e[1] = x /\ e[3] = RankIn(s, x) * Scale
    /\ phase = "stopped" => Pages(output) = nodes_source

\* C19: pagerank and pagerank_shared build the same adjacency from the
\* same edge file and collect the same result after the same number of
\* iterations.
C19_PagerankStrategies ==
    /\ adj_list = AdjacencyOf(~opts.shared)
    /\ phase = "stopped" =>
          /\ Pagerank(~opts.shared).result = output
          /\ Pagerank(~opts.shared).iterations = iteration_index

\* C20 as stated: when the loop condition is evaluated the flag is true
\* exactly when some page's new rank 0.85 * inbound + 0.15 / N differs
\* from the rank it held at the start of the iteration (1/N at first) by
\* more than EPS, relative to the new rank.
C20_Original ==
    (phase = "running" /\ pc = "condition") =>
        (state <=>
            \E x \in Pages(s) :
                Changed(RankIn(s, x) * Scale,
                        NewRank(adj_list, s, x, iteration_index)))

\* C20 amended: the flag is true exactly when some page that received an
\* inbound candidate has a new rank that differs by more than EPS,
\* relative to the new rank, from the rank the previous iteration gave
\* it, and from 0 in the first iteration.
C20_FlagIffEmittedRankMoved ==
    (phase = "running" /\ pc = "condition") =>
        (state <=>
            \E y \in Targets(adj_list, s) :
                Changed(IF iteration_index = 0 THEN 0
                        ELSE RankIn(s, y) * Scale,
                        NewRank(adj_list, s, y, iteration_index)))

C20_Witness ==
    /\ phase = "running"
    /\ pc = "condition"
    /\ iteration_index >= 1
    /\ output # {}
    /\ ~state

\* The pages of a stream that have a key in the adjacency.
WithLinks(stream) == {i \in stream : i[1] \in DOMAIN adj_list}

\* C21: under both strategies a page without out-links emits no candidate
\* and causes no failure, and no share rank / adj.len() is computed with
\* a length of 0: every list of the adjacency is non-empty, and what the
\* body emits is what the pages that have a list alone produce.
C21_DanglingEmitsNothing ==
    /\ phase # "failed"
    /\ \A x \in DOMAIN adj_list : AdjLen(adj_list, x) > 0
    /\ pc # "body" =>
          /\ Pages(output) = Targets(adj_list, WithLinks(s))
          /\ \A e \in output :
                e[3] = NewRank(adj_list, WithLinks(s), e[1], BodyIndex)

C21_Witness ==
    /\ pc # "body"
    /\ output # {}
    /\ \E x \in Pages(s) : x \notin DOMAIN adj_list

\* C22: when every page has an out-link, the ranks of all pages sum to 1
\* within 1e-6 after every iteration (join strategy).
C22_MassConserved ==
    (~opts.shared /\ NoDangling /\ pc # "body") =>
        Abs(RankSum(output) - Denom(BodyIndex + 1))
            <= Denom(BodyIndex + 1) \div 1000000

\* C23: a page with no inbound link and at least one out-link is reported
\* in the final output with the rank (1 - 0.85) / N.
C23_FloorRank ==
    phase = "stopped" =>
        \A x \in nodes_source :
            (/\ x \in DOMAIN adj_list
             /\ \A u \in DOMAIN adj_list : adj_list[u][x] = 0) =>
                \E e \in output :
                    /\ e[1] = x
                    /\ e[3] * opts.nodes * DampeningDen =
                           (DampeningDen - DampeningNum) * Denom(iteration_index)

\* C24: on the cycle over 3 pages every page's rank is within EPS of 1/3
\* after every iteration, and with a budget of 3 or more the loop stops
\* by its flag before the budget is used up.
C24_CycleConverges ==
    (IsCycle /\ opts.nodes = 3) =>
        /\ pc # "body" =>
              /\ Pages(output) = nodes_source
              /\ \A e \in output :
                    Abs(3 * e[3] - Denom(BodyIndex + 1))
                        <= (3 * Denom(BodyIndex + 1)) \div EpsInverse
        /\ (phase = "stopped" /\ opts.iterations >= 3) =>
              ~condition /\ iteration_index < opts.iterations

\* ------------------------------------------------------------- labels
\* The nodes within distance k of a node of b.
RECURSIVE Within(_, _)
Within(b, k) == IF k = 0 THEN b ELSE Within(Grow(b), k - 1)

\* C25: when the loop has stopped because the flag was false, the label of
\* every node is the smallest node id of its connected component, under
\* both strategies.
C25_MinOfComponent ==
    (phase = "stopped" /\ ~condition) =>
        \A i \in Nodes : state.component[i] = Min(Reach({i}))

C25_Witness ==
    /\ phase = "stopped"
    /\ ~condition
    /\ \E i \in Nodes : state.component[i] # i /\ state.component[i] # 0

\* C26: after k completed iterations the label of v is the smallest node
\* id among the nodes within distance k of v.
C26_MinWithinDistance ==
    /\ \A v \in Nodes : state.component[v] = v
    /\ [][AtLoopCondition =>
             \A v \in Nodes :
                 state'.component[v] =
                     Min(Within({v}, state'.iteration_count))]_vars

C26_Witness ==
    /\ phase = "running"
    /\ snapshot.iteration_count = 1
    /\ generated # {}
    /\ \E v \in Nodes : snapshot.component[v] # Min(Reach({v}))
    /\ \E v \in Nodes : snapshot.component[v] # v

\* C27: from the second iteration on the input of the body is the pairs
\* of the nodes whose label the previous iteration changed, and the state
\* after the fold of every iteration is the one that propagating the
\* labels of all nodes would give.
C27_DeltaFeedback ==
    /\ [](AtLoopCondition => state = OneMoreIteration(snapshot))
    /\ [][(AtLoopCondition /\ phase' = "running") =>
             s' = {<<x, state.component[x]>> :
                      x \in {x \in Nodes :
                                state.component[x] # snapshot.component[x]}}]_vars

C27_Witness ==
    /\ AtLoopCondition
    /\ iteration_index >= 1
    /\ state.updated
    /\ Cardinality(s) < Cardinality(Nodes)

\* C28: the pruning of the broadcast strategy drops a candidate (y, c) only
\* when c >= y, and such a candidate is never strictly below the label of
\* y, neither in the snapshot the filter reads nor in the leader's state.
C28_PruningKeepsImprovements ==
    [][opts.shared =>
          \A p \in generated' \ generated : \A t \in Pairs :
              JoinCandidates(Slice(p))[t] > cand'[p][t] =>
                  /\ t[2] >= t[1]
                  /\ ~(t[2] < snapshot.component[t[1]])
                  /\ ~(t[2] < state.component[t[1]])]_vars

C28_Witness ==
    /\ opts.shared
    /\ iteration_index >= 1
    /\ \E p \in generated : \E t \in Pairs :
          JoinCandidates(Slice(p))[t] > cand[p][t]

\* C29: in every reachable state the label of node i is at most i and is
\* the id of a node connected to i, so two nodes with equal labels are
\* connected, also in a snapshot exposed by a halt at the budget: this
\* holds of the first labels and of the labels after every step that
\* changes them.
LabelInComponent(component) ==
    /\ \A i \in Nodes :
          /\ component[i] <= i
          /\ component[i] = i \/ IsConnected(i, component[i])
    /\ \A u, v \in Nodes :
          (u < v /\ component[u] = component[v]) => IsConnected(u, v)

C29_LabelInComponent ==
    /\ LabelInComponent(state.component)
    /\ [][state'.component # state.component =>
             LabelInComponent(state'.component)]_vars

C29_Witness ==
    /\ phase = "stopped"
    /\ condition
    /\ \E i \in Nodes : state.component[i] < i
    /\ \E u, v \in Nodes :
          IsConnected(u, v) /\ state.component[u] # state.component[v]

\* C30: the deltas of all replicas of an iteration hold at most one pair
\* per node, so folding them in any order gives what folding them all at
\* once gives.
C30_OnePairPerNode ==
    /\ \A p, q \in Parts : \A t \in delta[p] : \A u \in delta[q] :
          t[1] = u[1] => (p = q /\ t = u)
    /\ AtLoopCondition =>
          state = GlobalFold(snapshot, UNION {delta[p] : p \in Parts})

C30_Witness ==
    /\ phase = "running"
    /\ parts = 2
    /\ Cardinality(folded) = 1
    /\ delta[0] # {}
    /\ delta[1] # {}

\* The number of iterations, from the state st and the input of an
\* iteration on, whose fold changes a label when no budget ends the loop.
RECURSIVE ChangingFolds(_, _)
ChangingFolds(st, input) ==
    LET changes == FilterMap(st,
                       GroupByMinElement(Candidates(opts.shared, input)))
    IN  IF changes = {} THEN 0
        ELSE 1 + ChangingFolds(GlobalFold(st, changes), changes)

\* C31: the loop stops by its flag only after an iteration whose deltas
\* are all empty, so a run that converges has run one iteration more than
\* the number of folds that change a label; a run whose budget equals
\* that number stops at the budget, with labels that no further iteration
\* would change.
StoppedAfter(k) ==
    /\ ~condition <=> UNION {delta[p] : p \in Parts} = {}
    /\ ~condition => iteration_index = k + 1
    /\ condition => iteration_index = opts.iterations
    /\ opts.iterations = k =>
          /\ condition
          /\ iteration_index = k
          /\ OneMoreIteration(state).component = state.component

C31_OneMoreIteration ==
    phase = "stopped" =>
        StoppedAfter(ChangingFolds(StateNew(opts.nodes),
                                   {<<x, x>> : x \in nodes_source}))

C31_Witness ==
    /\ phase = "stopped"
    /\ condition
    /\ iteration_index = 2
    /\ parts = 2
    /\ OneMoreIteration(state).component = state.component

=============================================================================
